---- MODULE Spec2Model ----
(***************************************************************************)
(* pdf-made-easy: the build / watch lifecycle engine.                      *)
(*                                                                         *)
(* Two generations of the engine are modelled side by side, selected by    *)
(* the variable impl:                                                      *)
(*   "index"  src/index.js  getBuilder / build / develop (library + CLI)   *)
(*   "lib"    src/lib.js    getPDFBuilder / buildPDF / developPDF (CLI)    *)
(*                                                                         *)
(* JavaScript is single threaded: an async function runs without           *)
(* interruption up to its next await.  Every action below is one such      *)
(* synchronous stretch of one async call; slots hold the calls in flight.  *)
(***************************************************************************)
EXTENDS Integers, FiniteSets, Sequences, TLC

\* ------------------------------------------------------------ bounds
\* calls a library user issues on one Builder
MaxCalls == 3
\* event batches the filesystem watcher delivers in one session
MaxBatches == 2
\* invocations of the cleanup closure (signal handlers)
MaxCleanups == 2
\* edits of the watched data file during a session
MaxEdits == 1

\* async calls that can be in flight at once
Slots == {"s1", "s2"}

Impls == {"index", "lib"}

\* ------------------------------------------------------------ errors
NoError == "none"
\* src/index.js:15-18
errorsToDisregard ==
  { "'data' must be an object or undefined, given 'null'",
    "JSON5: invalid end of input at 1:1" }

\* ------------------------------------------------------------ files
\* what the data file holds, by what the parser makes of it
DataStates == {"missing", "object", "empty", "null", "scalar", "array", "garbage"}
DataExts == {".yml", ".json", ".txt"}
TplExts == {".liquid", ".html"}

Ok(v) == [ok |-> TRUE, v |-> v]
Fail(e) == [ok |-> FALSE, v |-> e]

\* YAML.parse: an empty document and an explicit null both give null
YAMLparse(d) ==
  CASE d = "garbage" -> Fail("YAMLParseError")
    [] d = "empty" -> Ok("null")
    [] OTHER -> Ok(d)

\* JSON5.parse: an empty input is a syntax error at 1:1
JSON5parse(d) ==
  CASE d = "garbage" -> Fail("JSON5: invalid character")
    [] d = "empty" -> Fail("JSON5: invalid end of input at 1:1")
    [] OTHER -> Ok(d)

\* src/index.js parseData
parseData(d, type) == IF type = "yaml" THEN YAMLparse(d) ELSE JSON5parse(d)

\* src/index.js getData: existence, then read, then the extension picks the parser
getData(d, ext) ==
  IF d = "missing" THEN Fail("Data file does not exist")
  ELSE IF ext \in {".yml", ".yaml"} THEN parseData(d, "yaml")
  ELSE IF ext \in {".json", ".jsonc", ".json5"} THEN parseData(d, "json")
  ELSE Fail("Only YAML, JSON, JSONC, and JSON5 formats are accepted")

\* typeof of a parsed value
TypeOf(v) ==
  CASE v \in {"object", "array", "null"} -> "object"
    [] v = "undefined" -> "undefined"
    [] OTHER -> "string"

\* src/index.js renderHTML, up to the call of render: the error it throws, or none
renderHTMLcheck(tplExists, v) ==
  IF ~tplExists THEN "Template file does not exist"
  ELSE IF TypeOf(v) # "object" /\ TypeOf(v) # "undefined"
    THEN "'data' must be an object or undefined, given 'string'"
  ELSE IF v = "null" THEN "'data' must be an object or undefined, given 'null'"
  ELSE NoError

\* src/lib.js build, "Get data": read and parse, then the shape check
libGetData(d) ==
  IF d = "missing" \/ ~YAMLparse(d).ok THEN Fail("could not read and parse data file")
  ELSE IF YAMLparse(d).v # "undefined" /\ YAMLparse(d).v # "object"
    THEN Fail("data must be an object or undefined")
  ELSE Ok(YAMLparse(d).v)

\* ------------------------------------------------------------ paths
\* segments a path argument is made of
MaxSegs == 2

\* A JavaScript value passed where a path is expected.  A string is held as its
\* POSIX structure: abs says whether it starts with "/", segs are the pieces
\* between separators ("" is abs = FALSE with no segment, "/" is abs = TRUE with
\* no segment).  Trailing separators are not modelled.
Str(abs, segs) == [t |-> "string", abs |-> abs, segs |-> segs]
NonString(t) == [t |-> t, abs |-> FALSE, segs |-> <<>>]

\* nodePath.normalize: "." segments go, ".." removes the segment before it,
\* above the root it is dropped, at the start of a relative path it stays;
\* an empty relative result is "."
RECURSIVE resolve(_, _, _)
resolve(abs, done, rest) ==
  IF rest = <<>> THEN done
  ELSE LET x == Head(rest)
           n == Len(done)
       IN IF x = "." THEN resolve(abs, done, Tail(rest))
          ELSE IF x = ".."
            THEN IF n > 0 /\ done[n] # ".."
                   THEN resolve(abs, SubSeq(done, 1, n - 1), Tail(rest))
                 ELSE IF abs THEN resolve(abs, done, Tail(rest))
                 ELSE resolve(abs, Append(done, x), Tail(rest))
          ELSE resolve(abs, Append(done, x), Tail(rest))

normalize(p) ==
  LET r == resolve(p.abs, <<>>, p.segs)
  IN IF ~p.abs /\ r = <<>> THEN Str(FALSE, <<".">>) ELSE Str(p.abs, r)

\* nodePath.join(a, c): the non-empty arguments joined by "/", then normalized
join(a, c) ==
  LET aEmpty == ~a.abs /\ a.segs = <<>>
      cEmpty == ~c.abs /\ c.segs = <<>>
  IN IF aEmpty THEN normalize(c)
     ELSE IF cEmpty THEN normalize(a)
     ELSE normalize(Str(a.abs, a.segs \o c.segs))

isAbsolute(p) == p.abs

\* process.cwd()
cwd == Str(TRUE, <<"w">>)

PathOk(p) == [ok |-> TRUE, v |-> p, e |-> NoError]
PathFail(e) == [ok |-> FALSE, v |-> NonString("undefined"), e |-> e]

\* an absolutizePath that joins every path to the root
Mut_absolutizePath(path, rootDir) ==
  LET root == IF rootDir.t = "undefined" THEN cwd ELSE rootDir
  IN IF path.t # "string" THEN PathFail("'path' must be a string")
     ELSE IF root.t # "string" THEN PathFail("'rootDir' must be a string")
     ELSE PathOk(join(root, path))

\* src/index.js absolutizePath(path, rootDir = process.cwd())
absolutizePath(path, rootDir) ==
  LET root == IF rootDir.t = "undefined" THEN cwd ELSE rootDir
  IN IF path.t # "string" THEN PathFail("'path' must be a string")
     ELSE IF root.t # "string" THEN PathFail("'rootDir' must be a string")
     ELSE IF isAbsolute(path) THEN PathOk(normalize(path))
     ELSE PathOk(join(root, path))

\* the root directory a Builder of src/index.js is given
rootDir == Str(TRUE, <<"r">>)

\* the output paths a request can name: relative, relative leaving the root,
\* absolute and not normalized
OutputPaths ==
  { Str(FALSE, <<"d", "o">>), Str(FALSE, <<"..", "o">>), Str(TRUE, <<"d", "..", "o">>) }

\* an absolutizePath that leaves out the join to the working directory
Mut_lib_absolutizePath(path) == normalize(path)

\* src/lib.js absolutizePath(path)
lib_absolutizePath(path) ==
  IF isAbsolute(path) THEN normalize(path) ELSE join(cwd, path)

\* ------------------------------------------------------------ state
VARIABLES
  impl,     \* which generation of the engine runs
  mode,     \* "builder": a library user drives one Builder; "build"; "develop"
  req,      \* the BuildRequest and root directory given by the caller
  fsys,     \* the filesystem: inputs, output directory, output file
  b,        \* the Builder's closure variables
  proc,     \* the browser process and its page
  sub,      \* the filesystem subscription of the watch session
  slots,    \* the async calls in flight
  env,      \* what the outside has done so far (calls, batches, edits)
  obs,      \* what the outside has observed (history)
  call      \* one application of an exported pure function: arguments, result

vars == <<impl, mode, req, fsys, b, proc, sub, slots, env, obs, call>>

\* no pure function is being applied
NoCall == [fn |-> "none"]

IdleSlot ==
  [act |-> "idle", pc |-> "idle", err |-> NoError, args |-> "ok", data |-> "none",
   ver |-> "none", html |-> "none", bytes |-> "none", fx |-> {},
   nbuild |-> 0, berr |-> NoError, cres |-> "none", hasMatch |-> FALSE,
   hasUpdate |-> FALSE,
   afterClose |-> FALSE, afterFail |-> FALSE,
   outputFile |-> NonString("undefined")]

\* what a caller can pass to builder.build(request, rootDir)
ArgKinds == {"ok", "noRequest", "rootNotString"}

\* the effects a build() call can have on the outside
Effects == {"read", "mkdir", "write", "tpl", "pdf"}

VerName == <<"v0", "v1", "v2", "v3">>
\* the rendering of the data file's n-th content
VerOf(n) == VerName[n + 1]

\* ------------------------------------------------------------ construction
\* src/index.js getBuilder / getPDFRenderer, src/lib.js getPDFBuilder: the closure
\* variables once both awaits (launch, newPage) have resolved
BuilderOpen ==
  [made |-> TRUE, isClosed |-> FALSE, rClosed |-> FALSE,
   liquid |-> impl = "lib", page |-> TRUE, browser |-> TRUE]

BuilderNone ==
  [made |-> FALSE, isClosed |-> FALSE, rClosed |-> FALSE,
   liquid |-> FALSE, page |-> FALSE, browser |-> FALSE]

ProcNone ==
  [browser |-> "none", page |-> "none", content |-> "none",
   nLaunch |-> 0, nBrowserClose |-> 0, nPageClose |-> 0]

ProcLive == [ProcNone EXCEPT !.browser = "live", !.page = "open", !.nLaunch = 1]

Requests ==
  [dataExt : DataExts, tplExt : TplExts, rootIsString : BOOLEAN, output : OutputPaths]

FsStates ==
  { f \in [root : BOOLEAN, tpl : BOOLEAN, data : DataStates, ver : {0},
           outDir : BOOLEAN, out : {"none", "old"}] :
      ~f.outDir => f.out = "none" }

\* seen: the edit count of the data file when the latest rebuild was started
EnvInit == [calls |-> 0, batches |-> 0, cleanups |-> 0, edits |-> 0, seen |-> 0]

ObsInit == [closeDone |-> FALSE, session |-> FALSE, swallowed |-> FALSE,
            thrown |-> NoError, reported |-> NoError, exit |-> "none",
            by |-> "none"]

\* A Builder freshly returned by getBuilder() / getPDFBuilder(), in the hands of
\* a library user
InitBuilder ==
  /\ impl \in Impls
  /\ mode = "builder"
  /\ req \in Requests
  /\ fsys \in FsStates
  /\ b = BuilderOpen
  /\ proc = ProcLive
  /\ sub = "none"
  /\ slots = [p \in Slots |-> IdleSlot]
  /\ env = EnvInit
  /\ obs = ObsInit
  /\ call = NoCall

\* ------------------------------------------------------------ returns
\* a Builder.build that itself swallows the errors of the disregard set
Mut_BuildReturn(s, e) ==
  LET r == [s EXCEPT !.berr = e]
      x == IF e \in errorsToDisregard THEN NoError ELSE e
  IN CASE s.act = "oneshot" -> [r EXCEPT !.pc = "os_finally", !.err = x]
       [] s.act = "develop" ->
            [r EXCEPT !.pc = IF x = NoError THEN "d_subscribe" ELSE "d_catch",
                      !.err = x]
       [] s.act = "callback" -> [r EXCEPT !.pc = "w_settle", !.err = x]
       [] OTHER -> [r EXCEPT !.pc = "done", !.err = x]

\* a develop() that goes on to subscribe whatever the eager build gave
Mut_BuildReturn_subscribe(s, e) ==
  LET r == [s EXCEPT !.berr = e]
  IN CASE s.act = "oneshot" -> [r EXCEPT !.pc = "os_finally", !.err = e]
       [] s.act = "develop" -> [r EXCEPT !.pc = "d_subscribe", !.err = e]
       [] s.act = "callback" -> [r EXCEPT !.pc = "w_settle", !.err = e]
       [] OTHER -> [r EXCEPT !.pc = "done", !.err = e]

\* Where the caller continues once `await builder.build(...)` has settled with e.
\*   build     a library user's call: the promise settles
\*   oneshot   build() / buildPDF: the finally block
\*   develop   develop() / developPDF: subscribe, or the catch block
\*   callback  the watcher callback: its try / catch around the rebuild
\*   signal    the signal handler of executeCommand: `await cleanup?.()`
BuildReturn(s, e) ==
  LET r == [s EXCEPT !.berr = e]
  IN CASE s.act = "oneshot" -> [r EXCEPT !.pc = "os_finally", !.err = e]
       [] s.act = "develop" ->
            [r EXCEPT !.pc = IF e = NoError THEN "d_subscribe" ELSE "d_catch",
                      !.err = e]
       [] s.act = "callback" -> [r EXCEPT !.pc = "w_settle", !.err = e]
       [] OTHER -> [r EXCEPT !.pc = "done", !.err = e]

\* Where the caller continues once `await builder.close()` has settled with e: a
\* rejection of close() inside finally / catch replaces the pending error
CloseReturn(s, e) ==
  LET r == [s EXCEPT !.cres = IF e = NoError THEN "ok" ELSE e]
  IN CASE s.act \in {"oneshot", "develop"} ->
            [r EXCEPT !.pc = "settled", !.err = IF e # NoError THEN e ELSE s.err]
       [] s.act = "signal" -> [r EXCEPT !.pc = "h_exit", !.err = e]
       [] OTHER -> [r EXCEPT !.pc = "done", !.err = e]

Free(p) == slots[p].pc \in {"idle", "done", "settled"}

\* the call of the slot is inside Builder.build(), between two of its awaits
InBuild(s) ==
  s.pc \in { "b_root", "b_data", "b_html", "b_mkdir", "b_goto", "b_pdf", "b_write",
             "l_tpl", "l_data", "l_mkdir", "l_render", "l_setContent", "l_pdf" }

\* a build() call of the library user has settled with an error
HasFailedBuild ==
  \E q \in Slots :
    slots[q].act = "build" /\ slots[q].pc = "done" /\ slots[q].berr # NoError

\* the lowest free slot takes the next call
FirstFree(p) == Free(p) /\ (p = "s2" => ~Free("s1"))

\* has every close() effect of the Builder been applied
IsShut == IF impl = "index" THEN b.isClosed ELSE ~b.liquid /\ ~b.page /\ ~b.browser

Put(p, s) == slots' = [slots EXCEPT ![p] = s]

Fx(s, e) == [s EXCEPT !.fx = @ \cup e]

\* ------------------------------------------------------------ Builder.build
\* src/index.js build, lines 95-108, up to the first await: the parameter is
\* destructured before the body runs
index_build_enter(s) ==
  IF s.args = "noRequest"
    THEN BuildReturn(s, "Cannot destructure property 'data' of 'undefined'")
  ELSE IF b.isClosed THEN BuildReturn(s, NoError)
  ELSE IF s.args = "rootNotString" THEN BuildReturn(s, "'rootDir' must be a string")
  ELSE [s EXCEPT !.pc = "b_root"]

\* src/lib.js build, lines 296-310, up to the first await
lib_build_enter(s) ==
  IF ~b.liquid \/ ~b.browser \/ ~b.page THEN BuildReturn(s, NoError)
  ELSE IF req.tplExt # ".liquid"
    THEN BuildReturn(s, "template file must be a Liquid file")
  ELSE [s EXCEPT !.pc = "l_tpl"]

\* the synchronous start of builder.build(), run by whoever calls it
BuildCall(p, s) ==
  Put(p, IF impl = "index" THEN index_build_enter(s) ELSE lib_build_enter(s))

\* a build() that closes the Builder when the root directory is missing
Mut_index_build_root(p) ==
  /\ slots[p].pc = "b_root"
  /\ Put(p, IF fsys.root THEN [slots[p] EXCEPT !.pc = "b_data"]
            ELSE BuildReturn(slots[p], "Root directory does not exist"))
  /\ b' = IF fsys.root THEN b ELSE [b EXCEPT !.isClosed = TRUE]
  /\ UNCHANGED <<call, impl, mode, req, fsys, proc, sub, env, obs>>

\* pathExists(rootDir) has resolved; getData is entered
index_build_root(p) ==
  /\ slots[p].pc = "b_root"
  /\ Put(p, IF fsys.root THEN [slots[p] EXCEPT !.pc = "b_data"]
            ELSE BuildReturn(slots[p], "Root directory does not exist"))
  /\ UNCHANGED <<call, impl, mode, req, fsys, b, proc, sub, env, obs>>

\* getData(absolutizePath(data, rootDir)) has settled; renderHTML is entered
index_build_getData(p) ==
  /\ slots[p].pc = "b_data"
  /\ LET r == getData(fsys.data, req.dataExt)
         s == Fx(slots[p], IF fsys.data = "missing" THEN {} ELSE {"read"})
     IN Put(p, IF r.ok
                 THEN [s EXCEPT !.pc = "b_html", !.data = r.v, !.ver = VerOf(fsys.ver)]
                 ELSE BuildReturn(s, r.v))
  /\ UNCHANGED <<call, impl, mode, req, fsys, b, proc, sub, env, obs>>

\* renderHTML has settled: the checks, the template read, the template render
index_build_renderHTML(p) ==
  /\ slots[p].pc = "b_html"
  /\ LET s == slots[p]
         e == renderHTMLcheck(fsys.tpl, s.data)
     IN IF e # NoError THEN Put(p, BuildReturn(s, e))
        ELSE \E ok \in BOOLEAN :
          Put(p, IF ok THEN [Fx(s, {"read", "tpl"}) EXCEPT
                              !.pc = "b_mkdir", !.html = s.ver,
                              !.outputFile = absolutizePath(req.output, rootDir).v]
                 ELSE BuildReturn(Fx(s, {"read", "tpl"}), "TemplateRenderError"))
  /\ UNCHANGED <<call, impl, mode, req, fsys, b, proc, sub, env, obs>>

\* src/index.js render, lines 241-246, up to the first await
index_render_enter(s) ==
  IF b.rClosed THEN [Fx(s, {"pdf"}) EXCEPT !.pc = "b_write", !.bytes = "empty"]
  ELSE [Fx(s, {"pdf"}) EXCEPT !.pc = "b_goto"]

\* the output directory is ensured, then pdfRenderer.render is entered
index_build_mkdir(p) ==
  /\ slots[p].pc = "b_mkdir"
  /\ \/ /\ fsys.outDir
        /\ Put(p, index_render_enter(slots[p]))
        /\ UNCHANGED fsys
     \/ /\ ~fsys.outDir
        /\ fsys' = [fsys EXCEPT !.outDir = TRUE]
        /\ Put(p, index_render_enter(Fx(slots[p], {"mkdir"})))
     \/ /\ ~fsys.outDir
        /\ Put(p, BuildReturn(slots[p], "MkdirError"))
        /\ UNCHANGED fsys
  /\ UNCHANGED <<call, impl, mode, req, b, proc, sub, env, obs>>

\* page.goto(url) has settled; page.pdf is called
index_render_goto(p) ==
  /\ slots[p].pc = "b_goto"
  /\ \/ /\ proc.page = "open"
        /\ proc' = [proc EXCEPT !.content = slots[p].html]
        /\ Put(p, [slots[p] EXCEPT !.pc = "b_pdf"])
     \/ /\ Put(p, BuildReturn(slots[p], "DocumentRenderError"))
        /\ UNCHANGED proc
  /\ UNCHANGED <<call, impl, mode, req, fsys, b, sub, env, obs>>

\* page.pdf(options) has settled; fs.writeFile is called with its bytes
index_render_pdf(p) ==
  /\ slots[p].pc = "b_pdf"
  /\ \/ /\ proc.page = "open"
        /\ Put(p, [slots[p] EXCEPT !.pc = "b_write", !.bytes = proc.content])
     \/ Put(p, BuildReturn(slots[p], "DocumentRenderError"))
  /\ UNCHANGED <<call, impl, mode, req, fsys, b, proc, sub, env, obs>>

\* fs.writeFile(outputFile, bytes) has resolved
index_build_writeFile(p) ==
  /\ slots[p].pc = "b_write"
  /\ fsys' = [fsys EXCEPT !.out = slots[p].bytes]
  /\ Put(p, BuildReturn(Fx(slots[p], {"write"}), NoError))
  /\ UNCHANGED <<call, impl, mode, req, b, proc, sub, env, obs>>

\* src/lib.js build: the template has been read (or not); the data file is next
lib_build_template(p) ==
  /\ slots[p].pc = "l_tpl"
  /\ Put(p, IF ~fsys.tpl
              THEN BuildReturn(slots[p], "could not read template file")
            ELSE IF req.dataExt \notin {".yml", ".yaml"}
              THEN BuildReturn(Fx(slots[p], {"read"}), "data file must be a YAML file")
            ELSE [Fx(slots[p], {"read"}) EXCEPT !.pc = "l_data"])
  /\ UNCHANGED <<call, impl, mode, req, fsys, b, proc, sub, env, obs>>

\* src/lib.js build: the data file has been read, parsed and checked; mkdir is next
lib_build_data(p) ==
  /\ slots[p].pc = "l_data"
  /\ LET r == libGetData(fsys.data)
         s == Fx(slots[p], IF fsys.data = "missing" THEN {} ELSE {"read"})
     IN Put(p, IF r.ok
                 THEN [s EXCEPT !.pc = "l_mkdir", !.data = r.v, !.ver = VerOf(fsys.ver),
                                !.outputFile = lib_absolutizePath(req.output)]
                 ELSE BuildReturn(s, r.v))
  /\ UNCHANGED <<call, impl, mode, req, fsys, b, proc, sub, env, obs>>

\* src/lib.js build, lines 341-344: page.setContent( is resolved on the page
\* variable, then liquid.parseAndRender is called on the liquid variable
lib_build_startRender(s) ==
  IF ~b.page
    THEN BuildReturn(s, "Cannot read properties of undefined (reading 'setContent')")
  ELSE IF ~b.liquid
    THEN BuildReturn(s, "Cannot read properties of undefined (reading 'parseAndRender')")
  ELSE [Fx(s, {"tpl"}) EXCEPT !.pc = "l_render"]

\* fs.mkdir(dirname(outputFile), {recursive: true}) has settled
lib_build_mkdir(p) ==
  /\ slots[p].pc = "l_mkdir"
  /\ \/ /\ fsys.outDir
        /\ Put(p, lib_build_startRender(slots[p]))
        /\ UNCHANGED fsys
     \/ /\ ~fsys.outDir
        /\ fsys' = [fsys EXCEPT !.outDir = TRUE]
        /\ Put(p, lib_build_startRender(Fx(slots[p], {"mkdir"})))
     \/ /\ ~fsys.outDir
        /\ Put(p, BuildReturn(slots[p], "MkdirError"))
        /\ UNCHANGED fsys
  /\ UNCHANGED <<call, impl, mode, req, b, proc, sub, env, obs>>

\* liquid.parseAndRender has settled; page.setContent is called on the page
lib_build_parseAndRender(p) ==
  /\ slots[p].pc = "l_render"
  /\ \E ok \in BOOLEAN :
       Put(p, IF ok THEN [Fx(slots[p], {"pdf"}) EXCEPT !.pc = "l_setContent",
                                                        !.html = slots[p].ver]
              ELSE BuildReturn(slots[p], "TemplateRenderError"))
  /\ UNCHANGED <<call, impl, mode, req, fsys, b, proc, sub, env, obs>>

\* page.setContent has settled; page.pdf({path}) is called on the page variable
lib_build_setContent(p) ==
  /\ slots[p].pc = "l_setContent"
  /\ \/ /\ proc.page = "open"
        /\ proc' = [proc EXCEPT !.content = slots[p].html]
        /\ Put(p, IF b.page THEN [slots[p] EXCEPT !.pc = "l_pdf"]
                  ELSE BuildReturn(slots[p],
                         "Cannot read properties of undefined (reading 'pdf')"))
     \/ /\ Put(p, BuildReturn(slots[p], "DocumentRenderError"))
        /\ UNCHANGED proc
  /\ UNCHANGED <<call, impl, mode, req, fsys, b, sub, env, obs>>

\* page.pdf({...pdfOptions, path: outputFile}) has settled.  The renderer itself
\* writes the file at `path`: resolved, the file holds the document; rejected,
\* either before the file was opened, or after it was opened for writing and
\* not completed
lib_build_pdf(p) ==
  /\ slots[p].pc = "l_pdf"
  /\ \/ /\ proc.page = "open"
        /\ fsys' = [fsys EXCEPT !.out = proc.content]
        /\ Put(p, BuildReturn(
                    [Fx(slots[p], {"write"}) EXCEPT !.bytes = proc.content], NoError))
     \/ /\ Put(p, BuildReturn(slots[p], "DocumentRenderError"))
        /\ UNCHANGED fsys
     \/ /\ fsys' = [fsys EXCEPT !.out = "partial"]
        /\ Put(p, BuildReturn(Fx(slots[p], {"write"}), "DocumentRenderError"))
  /\ UNCHANGED <<call, impl, mode, req, b, proc, sub, env, obs>>

\* ------------------------------------------------------------ Builder.close
\* browser.close() / page.close() is invoked on the process
InvokeBrowserClose(pr) ==
  [pr EXCEPT !.nBrowserClose = @ + 1,
             !.browser = IF @ = "live" THEN "closing" ELSE @,
             !.page = IF @ = "open" THEN "closing" ELSE @]

InvokePageClose(pr) ==
  [pr EXCEPT !.nPageClose = @ + 1, !.page = IF @ = "open" THEN "closing" ELSE @]

\* browser.close() resolved / rejected
BrowserClosed(pr) == [pr EXCEPT !.browser = "closed", !.page = "closed"]

BrowserCloseFailed(pr) ==
  [pr EXCEPT !.browser = IF @ = "closing" THEN "live" ELSE @,
             !.page = IF @ = "closing" /\ pr.browser = "closing" THEN "open" ELSE @]

PageClosed(pr) == [pr EXCEPT !.page = "closed"]

PageCloseFailed(pr) ==
  [pr EXCEPT !.page = IF @ = "closing" /\ pr.browser = "live" THEN "open" ELSE @]

\* close() without either isClosed guard
Mut_index_close_enter(p, s) ==
  /\ proc' = InvokeBrowserClose(proc)
  /\ Put(p, [s EXCEPT !.pc = "c_browser"])
  /\ UNCHANGED b

\* src/index.js close (Builder, 134-139, and PDFRenderer, 249-254), up to the await
index_close_enter(p, s) ==
  IF b.isClosed THEN Put(p, CloseReturn(s, NoError)) /\ UNCHANGED <<b, proc>>
  ELSE IF b.rClosed THEN Put(p, [s EXCEPT !.pc = "c_flag"]) /\ UNCHANGED <<b, proc>>
  ELSE /\ proc' = InvokeBrowserClose(proc)
       /\ Put(p, [s EXCEPT !.pc = "c_browser"])
       /\ UNCHANGED b

\* src/lib.js close, lines 348-355, up to the await
lib_close_enter(p, s) ==
  /\ b' = [b EXCEPT !.liquid = FALSE]
  /\ IF b.page
       THEN proc' = InvokePageClose(proc) /\ Put(p, [s EXCEPT !.pc = "lc_page"])
       ELSE UNCHANGED proc /\ Put(p, [s EXCEPT !.pc = "lc_nopage"])

\* the synchronous start of builder.close(), run by whoever calls it
CloseCall(p, s) ==
  IF impl = "index" THEN index_close_enter(p, s) ELSE lib_close_enter(p, s)

\* browser.close() has settled inside pdfRenderer.close()
index_close_browser(p) ==
  /\ slots[p].pc = "c_browser"
  /\ \/ /\ proc' = BrowserClosed(proc)
        /\ b' = [b EXCEPT !.rClosed = TRUE]
        /\ Put(p, [slots[p] EXCEPT !.pc = "c_flag"])
     \/ /\ proc' = BrowserCloseFailed(proc)
        /\ Put(p, CloseReturn(slots[p], "CloseError"))
        /\ UNCHANGED b
  /\ UNCHANGED <<call, impl, mode, req, fsys, sub, env, obs>>

\* close() that forgets to set isClosed
Mut_index_close_flag(p) ==
  /\ slots[p].pc = "c_flag"
  /\ Put(p, CloseReturn(slots[p], NoError))
  /\ obs' = [obs EXCEPT !.closeDone = TRUE]
  /\ UNCHANGED <<call, impl, mode, req, fsys, b, proc, sub, env>>

\* close() that flips isClosed instead of setting it
Mut_index_close_toggle(p) ==
  /\ slots[p].pc = "c_flag"
  /\ b' = [b EXCEPT !.isClosed = ~@]
  /\ Put(p, CloseReturn(slots[p], NoError))
  /\ obs' = [obs EXCEPT !.closeDone = TRUE]
  /\ UNCHANGED <<call, impl, mode, req, fsys, proc, sub, env>>

\* pdfRenderer.close() has resolved: Builder.close sets isClosed and returns
index_close_flag(p) ==
  /\ slots[p].pc = "c_flag"
  /\ b' = [b EXCEPT !.isClosed = TRUE]
  /\ Put(p, CloseReturn(slots[p], NoError))
  /\ obs' = [obs EXCEPT !.closeDone = TRUE]
  /\ UNCHANGED <<call, impl, mode, req, fsys, proc, sub, env>>

\* src/lib.js close, lines 356-358: browser?.close() on the browser variable
lib_close_toBrowser(p, pr) ==
  IF b.browser
    THEN proc' = InvokeBrowserClose(pr) /\ Put(p, [slots[p] EXCEPT !.pc = "lc_browser"])
    ELSE proc' = pr /\ Put(p, [slots[p] EXCEPT !.pc = "lc_nobrowser"])

\* await page?.close() has settled
lib_close_page(p) ==
  /\ \/ /\ slots[p].pc = "lc_page"
        /\ b' = [b EXCEPT !.page = FALSE]
        /\ lib_close_toBrowser(p, PageClosed(proc))
     \/ /\ slots[p].pc = "lc_page"
        /\ proc' = PageCloseFailed(proc)
        /\ Put(p, CloseReturn(slots[p], "CloseError"))
        /\ UNCHANGED b
     \/ /\ slots[p].pc = "lc_nopage"
        /\ b' = [b EXCEPT !.page = FALSE]
        /\ lib_close_toBrowser(p, proc)
  /\ UNCHANGED <<call, impl, mode, req, fsys, sub, env, obs>>

\* await browser?.close() has settled
lib_close_browser(p) ==
  /\ \/ /\ slots[p].pc = "lc_browser"
        /\ proc' = BrowserClosed(proc)
        /\ b' = [b EXCEPT !.browser = FALSE]
        /\ Put(p, CloseReturn(slots[p], NoError))
        /\ obs' = [obs EXCEPT !.closeDone = TRUE]
     \/ /\ slots[p].pc = "lc_browser"
        /\ proc' = BrowserCloseFailed(proc)
        /\ Put(p, CloseReturn(slots[p], "CloseError"))
        /\ UNCHANGED <<b, obs>>
     \/ /\ slots[p].pc = "lc_nobrowser"
        /\ b' = [b EXCEPT !.browser = FALSE]
        /\ Put(p, CloseReturn(slots[p], NoError))
        /\ obs' = [obs EXCEPT !.closeDone = TRUE]
        /\ UNCHANGED proc
  /\ UNCHANGED <<call, impl, mode, req, fsys, sub, env>>

\* ------------------------------------------------------------ library user
\* the user calls builder.build(request, rootDir)
UserBuild(p) ==
  /\ mode = "builder"
  /\ FirstFree(p)
  /\ env.calls < MaxCalls
  /\ env' = [env EXCEPT !.calls = @ + 1]
  /\ \E a \in (IF impl = "index" THEN ArgKinds ELSE {"ok"}) :
       BuildCall(p, [IdleSlot EXCEPT !.act = "build", !.args = a,
                                     !.afterClose = obs.closeDone,
                                     !.afterFail = HasFailedBuild])
  /\ UNCHANGED <<call, impl, mode, req, fsys, b, proc, sub, obs>>

\* the user calls builder.close()
UserClose(p) ==
  /\ mode = "builder"
  /\ FirstFree(p)
  /\ env.calls < MaxCalls
  /\ env' = [env EXCEPT !.calls = @ + 1]
  /\ CloseCall(p, [IdleSlot EXCEPT !.act = "close", !.afterClose = obs.closeDone])
  /\ UNCHANGED <<call, impl, mode, req, fsys, sub, obs>>

\* ------------------------------------------------------------ getBuilder
\* getBuilder() / getPDFBuilder() rejected: the caller's builder variable stays
\* undefined, so its finally / catch block has nothing to close and rethrows
GetBuilderFail(s, e) == [s EXCEPT !.pc = "settled", !.err = e]

\* puppeteer.launch() has settled; browser.newPage() is called
\* (src/index.js 236-237, src/lib.js 285-292)
getBuilder_launch(p) ==
  /\ slots[p].pc = "g_launch"
  /\ \/ /\ proc' = [proc EXCEPT !.browser = "live", !.nLaunch = @ + 1]
        /\ Put(p, [slots[p] EXCEPT !.pc = "g_page"])
     \/ /\ Put(p, GetBuilderFail(slots[p], "LaunchError"))
        /\ UNCHANGED proc
  /\ UNCHANGED <<call, impl, mode, req, fsys, b, sub, env, obs>>

\* browser.newPage() has settled; the Builder object is returned
getBuilder_newPage(p) ==
  /\ slots[p].pc = "g_page"
  /\ \/ /\ proc' = [proc EXCEPT !.page = "open"]
        /\ b' = BuilderOpen
        /\ Put(p, [slots[p] EXCEPT !.pc = "g_made"])
     \/ /\ Put(p, GetBuilderFail(slots[p], "NewPageError"))
        /\ UNCHANGED <<proc, b>>
  /\ UNCHANGED <<call, impl, mode, req, fsys, sub, env, obs>>

\* `builder = await getBuilder(); await builder.build(args, rootDir)`
\* (src/index.js 38-39 and 82-83, src/lib.js 219-220 and 242-243)
caller_build(p) ==
  /\ slots[p].pc = "g_made"
  /\ BuildCall(p, slots[p])
  /\ UNCHANGED <<call, impl, mode, req, fsys, b, proc, sub, env, obs>>

\* ------------------------------------------------------------ one-shot build
\* src/index.js build 84-86, src/lib.js buildPDF 221-223: finally, builder.close()
build_finally(p) ==
  /\ slots[p].pc = "os_finally"
  /\ CloseCall(p, slots[p])
  /\ UNCHANGED <<call, impl, mode, req, fsys, sub, env, obs>>

\* build(args, rootDir) / buildPDF(args) has been called
InitBuild ==
  /\ impl \in Impls
  /\ mode = "build"
  /\ req \in Requests /\ req.rootIsString /\ req.output = Str(FALSE, <<"d", "o">>)
  /\ fsys \in FsStates
  /\ b = BuilderNone
  /\ proc = ProcNone
  /\ sub = "none"
  /\ slots = [p \in Slots |->
       IF p = "s1" THEN [IdleSlot EXCEPT !.act = "oneshot", !.pc = "g_launch"]
       ELSE IdleSlot]
  /\ env = EnvInit
  /\ obs = ObsInit
  /\ call = NoCall

\* ------------------------------------------------------------ develop
\* src/index.js develop 26-38: both watched paths are checked before getBuilder()
develop_pathExists(p) ==
  /\ slots[p].pc = "d_exists"
  /\ Put(p, IF fsys.data = "missing" \/ ~fsys.tpl
              THEN [slots[p] EXCEPT !.pc = "settled", !.err = "does not exist"]
              ELSE [slots[p] EXCEPT !.pc = "g_launch"])
  /\ UNCHANGED <<call, impl, mode, req, fsys, b, proc, sub, env, obs>>

\* src/index.js develop 41-69: watcher.subscribe has settled;
\* src/lib.js developPDF 245-265: chokidar.watch(...).on(...) has returned
develop_subscribe(p) ==
  /\ slots[p].pc = "d_subscribe"
  /\ \/ /\ sub' = "active"
        /\ obs' = [obs EXCEPT !.session = TRUE]
        /\ Put(p, [slots[p] EXCEPT !.pc = "settled"])
     \/ /\ impl = "index"
        /\ Put(p, [slots[p] EXCEPT !.pc = "d_catch", !.err = "SubscribeError"])
        /\ UNCHANGED <<sub, obs>>
  /\ UNCHANGED <<call, impl, mode, req, fsys, b, proc, env>>

\* src/index.js develop 70-73, src/lib.js developPDF 266-269: the catch block;
\* the subscription variable is still undefined on every path into it
develop_catch(p) ==
  /\ slots[p].pc = "d_catch"
  /\ CloseCall(p, slots[p])
  /\ UNCHANGED <<call, impl, mode, req, fsys, sub, env, obs>>

\* develop(args, rootDir) / developPDF(args) has been called
InitDevelop ==
  /\ impl \in Impls
  /\ mode = "develop"
  /\ req \in Requests /\ req.rootIsString /\ req.output = Str(FALSE, <<"d", "o">>)
  /\ fsys \in FsStates
  /\ b = BuilderNone
  /\ proc = ProcNone
  /\ sub = "none"
  /\ slots = [p \in Slots |->
       IF p = "s1"
         THEN [IdleSlot EXCEPT !.act = "develop",
                 !.pc = IF impl = "index" THEN "d_exists" ELSE "g_launch"]
       ELSE IdleSlot]
  /\ env = EnvInit
  /\ obs = ObsInit
  /\ call = NoCall

\* ------------------------------------------------------------ watch events
MaxBatchLen == 2

WatchedPaths == {"data", "tpl"}
Events == [path : WatchedPaths \cup {"other"}, type : {"create", "update", "delete"}]
Batches == UNION { [1..n -> Events] : n \in 0..MaxBatchLen }

Matches(batch) == { i \in DOMAIN batch : batch[i].path \in WatchedPaths }

\* events.find(({ path }) => pathsToWatch.includes(path)): the first such event
find(batch) ==
  LET i == CHOOSE i \in Matches(batch) : \A j \in Matches(batch) : i <= j
  IN batch[i]

HasWatchedUpdate(batch) ==
  \E i \in Matches(batch) : batch[i].type = "update"

\* a callback that rebuilds on any event of a watched path
Mut_returnsEarly(batch) == Matches(batch) = {}

\* src/index.js 48-52: no event of a watched path, or the first one is no update
returnsEarly(batch) ==
  Matches(batch) = {} \/ find(batch).type # "update"

\* src/index.js 43-55: the subscribe callback is called with (null, events)
index_callback(p) ==
  /\ impl = "index" /\ mode = "develop" /\ obs.exit = "none"
  /\ sub = "active" /\ FirstFree(p)
  /\ env.batches < MaxBatches
  /\ \E batch \in Batches :
       LET s == [IdleSlot EXCEPT !.act = "callback",
                   !.hasMatch = Matches(batch) # {},
                   !.hasUpdate = HasWatchedUpdate(batch)]
       IN IF returnsEarly(batch)
            THEN /\ Put(p, [s EXCEPT !.pc = "done"])
                 /\ env' = [env EXCEPT !.batches = @ + 1]
            ELSE /\ BuildCall(p, [s EXCEPT !.nbuild = 1])
                 /\ env' = [env EXCEPT !.batches = @ + 1, !.seen = fsys.ver]
  /\ UNCHANGED <<call, impl, mode, req, fsys, b, proc, sub, obs>>

\* src/index.js 44-46: the subscribe callback is called with an error
index_callback_error(p) ==
  /\ impl = "index" /\ mode = "develop" /\ obs.exit = "none"
  /\ sub = "active" /\ FirstFree(p)
  /\ env.batches < MaxBatches
  /\ env' = [env EXCEPT !.batches = @ + 1]
  /\ Put(p, [IdleSlot EXCEPT !.act = "callback", !.pc = "done",
                             !.err = "WatcherError"])
  /\ obs' = [obs EXCEPT !.thrown = "WatcherError"]
  /\ UNCHANGED <<call, impl, mode, req, fsys, b, proc, sub>>

\* src/lib.js 251-253: chokidar reports a change of a watched file
lib_change(p) ==
  /\ impl = "lib" /\ mode = "develop" /\ obs.exit = "none"
  /\ sub = "active" /\ FirstFree(p)
  /\ env.batches < MaxBatches
  /\ env' = [env EXCEPT !.batches = @ + 1, !.seen = fsys.ver]
  /\ BuildCall(p, [IdleSlot EXCEPT !.act = "callback", !.hasMatch = TRUE,
                                   !.hasUpdate = TRUE, !.nbuild = 1])
  /\ UNCHANGED <<call, impl, mode, req, fsys, b, proc, sub, obs>>

\* a callback that rethrows every error of the rebuild
Mut_index_callback_settle(p) ==
  /\ impl = "index"
  /\ slots[p].pc = "w_settle"
  /\ Put(p, [slots[p] EXCEPT !.pc = "done"])
  /\ obs' = [obs EXCEPT !.thrown = slots[p].err]
  /\ UNCHANGED <<call, impl, mode, req, fsys, b, proc, sub, env>>

\* src/index.js 54-62: the rebuild has settled inside the callback's try
index_callback_settle(p) ==
  /\ impl = "index"
  /\ slots[p].pc = "w_settle"
  /\ LET e == slots[p].err
     IN IF e = NoError
          THEN Put(p, [slots[p] EXCEPT !.pc = "done"]) /\ UNCHANGED obs
        ELSE IF e \in errorsToDisregard
          THEN /\ Put(p, [slots[p] EXCEPT !.pc = "done", !.err = NoError])
               /\ obs' = [obs EXCEPT !.swallowed = TRUE]
        ELSE /\ Put(p, [slots[p] EXCEPT !.pc = "done"])
             /\ obs' = [obs EXCEPT !.thrown = e]
  /\ UNCHANGED <<call, impl, mode, req, fsys, b, proc, sub, env>>

\* src/lib.js printErrorThenExit: report, exit code 1, process.exit() ends every
\* async call in flight
printErrorThenExit(error) ==
  /\ obs' = [obs EXCEPT !.reported = error, !.exit = "1", !.by = "error"]
  /\ slots' = [q \in Slots |->
       [slots[q] EXCEPT !.pc = IF @ \in {"idle", "done", "settled"} THEN @
                               ELSE "exited"]]

\* src/lib.js 252-256: the rebuild has settled inside the handler's try
lib_change_catch(p) ==
  /\ impl = "lib"
  /\ slots[p].pc = "w_settle"
  /\ IF slots[p].err = NoError
       THEN Put(p, [slots[p] EXCEPT !.pc = "done"]) /\ UNCHANGED obs
       ELSE printErrorThenExit(slots[p].err)
  /\ UNCHANGED <<call, impl, mode, req, fsys, b, proc, sub, env>>

\* src/lib.js 258-260: chokidar reports an error
lib_error ==
  /\ impl = "lib" /\ mode = "develop" /\ obs.exit = "none"
  /\ sub = "active"
  /\ env.batches < MaxBatches
  /\ env' = [env EXCEPT !.batches = @ + 1]
  /\ printErrorThenExit("WatcherError")
  /\ UNCHANGED <<call, impl, mode, req, fsys, b, proc, sub>>

\* ------------------------------------------------------------ cleanup
\* the closure returned by develop() is invoked: unsubscribe() / watcher.close()
cleanup(p) ==
  /\ mode = "develop" /\ obs.session /\ obs.exit = "none"
  /\ FirstFree(p)
  /\ env.cleanups < MaxCleanups
  /\ env' = [env EXCEPT !.cleanups = @ + 1]
  /\ Put(p, [IdleSlot EXCEPT !.act = "cleanup", !.pc = "k_unsub",
                             !.afterClose = IsShut])
  /\ UNCHANGED <<call, impl, mode, req, fsys, b, proc, sub, obs>>

\* a cleanup that closes the Builder and leaves the subscription alone
Mut_cleanup_close(p) ==
  /\ slots[p].pc = "k_unsub"
  /\ CloseCall(p, slots[p])
  /\ UNCHANGED <<call, impl, mode, req, fsys, sub, env, obs>>

\* a cleanup whose unsubscribe() rejects once the subscription is gone
Mut_cleanup_close_once(p) ==
  /\ slots[p].pc = "k_unsub"
  /\ \/ /\ sub = "active"
        /\ sub' = "unsubscribed"
        /\ CloseCall(p, slots[p])
     \/ /\ Put(p, [slots[p] EXCEPT !.pc = "done", !.err = "UnsubscribeError"])
        /\ UNCHANGED <<sub, b, proc>>
  /\ UNCHANGED <<call, impl, mode, req, fsys, env, obs>>

\* await subscription.unsubscribe() / await watcher.close() has settled: resolved,
\* and builder.close() is called; or rejected while releasing a live
\* subscription, and the closure rejects without reaching builder.close()
cleanup_close(p) ==
  /\ slots[p].pc = "k_unsub"
  /\ \/ /\ sub' = "unsubscribed"
        /\ CloseCall(p, slots[p])
     \/ /\ sub = "active"
        /\ Put(p, [slots[p] EXCEPT
                     !.pc = IF slots[p].act = "signal" THEN "h_exit" ELSE "done",
                     !.err = "UnsubscribeError"])
        /\ UNCHANGED <<sub, b, proc>>
  /\ UNCHANGED <<call, impl, mode, req, fsys, env, obs>>

\* ------------------------------------------------------------ the CLI
\* src/cli.js handle 76-83: the command rejected; the catch prints the message
handle_catch(p) ==
  /\ impl = "index" /\ obs.exit = "none"
  /\ slots[p].act \in {"oneshot", "develop"} /\ slots[p].pc = "settled"
  /\ slots[p].err # NoError /\ obs.reported = NoError
  /\ obs' = [obs EXCEPT !.reported = slots[p].err]
  /\ UNCHANGED <<call, impl, mode, req, fsys, b, proc, sub, slots, env>>

\* src/lib.js executeCommand 116-118: the command rejected
executeCommand_catch(p) ==
  /\ impl = "lib" /\ obs.exit = "none"
  /\ slots[p].act \in {"oneshot", "develop"} /\ slots[p].pc = "settled"
  /\ slots[p].err # NoError
  /\ printErrorThenExit(slots[p].err)
  /\ UNCHANGED <<call, impl, mode, req, fsys, b, proc, sub, env>>

\* Nothing is left to run: the command has settled and been handled, no call is
\* in flight, no browser process and no subscription keeps the event loop
\* alive.  Node ends the process with process.exitCode, which nothing has set.
process_ends ==
  /\ mode \in {"build", "develop"} /\ obs.exit = "none"
  /\ \E p \in Slots :
       /\ slots[p].act \in {"oneshot", "develop"} /\ slots[p].pc = "settled"
       /\ slots[p].err # NoError => impl = "index" /\ obs.reported # NoError
  /\ \A p \in Slots : Free(p)
  /\ proc.browser \in {"none", "closed"} /\ sub # "active"
  /\ obs' = [obs EXCEPT !.exit = "0", !.by = "natural"]
  /\ UNCHANGED <<call, impl, mode, req, fsys, b, proc, sub, slots, env>>

\* a handler that exits without waiting for cleanup
Mut_lib_signal(p) ==
  /\ impl = "lib" /\ mode = "develop" /\ obs.session /\ obs.exit = "none"
  /\ FirstFree(p)
  /\ env.cleanups < MaxCleanups
  /\ env' = [env EXCEPT !.cleanups = @ + 1]
  /\ slots' = [q \in Slots |->
       IF q = p THEN [IdleSlot EXCEPT !.act = "signal", !.pc = "h_done"]
       ELSE [slots[q] EXCEPT !.pc = IF @ \in {"idle", "done", "settled"} THEN @
                                    ELSE "exited"]]
  /\ obs' = [obs EXCEPT !.exit = "0", !.by = "signal"]
  /\ UNCHANGED <<call, impl, mode, req, fsys, b, proc, sub>>

\* src/lib.js executeCommand 85-97: SIGHUP, SIGINT or SIGTERM reaches a handler
\* (registered once developPDF has resolved), which calls cleanup()
lib_signal(p) ==
  /\ impl = "lib" /\ mode = "develop" /\ obs.session /\ obs.exit = "none"
  /\ FirstFree(p)
  /\ env.cleanups < MaxCleanups
  /\ env' = [env EXCEPT !.cleanups = @ + 1]
  /\ Put(p, [IdleSlot EXCEPT !.act = "signal", !.pc = "k_unsub",
                             !.afterClose = IsShut])
  /\ UNCHANGED <<call, impl, mode, req, fsys, b, proc, sub, obs>>

\* src/lib.js executeCommand 97-113: `await cleanup?.()` has settled, a rejection
\* is caught and dropped; process.exitCode = 0; process.exit()
lib_signal_exit(p) ==
  /\ impl = "lib" /\ obs.exit = "none"
  /\ slots[p].act = "signal" /\ slots[p].pc = "h_exit"
  /\ slots' = [q \in Slots |->
       IF q = p THEN [slots[p] EXCEPT !.pc = "h_done"]
       ELSE [slots[q] EXCEPT !.pc = IF @ \in {"idle", "done", "settled"} THEN @
                                    ELSE "exited"]]
  /\ obs' = [obs EXCEPT !.exit = "0", !.by = "signal"]
  /\ UNCHANGED <<call, impl, mode, req, fsys, b, proc, sub, env>>

\* src/lib.js executeCommand 78-97, getPDFBuilder 285-290: SIGHUP, SIGINT or
\* SIGTERM arrives while buildPDF / developPDF is still awaited.  No handler is
\* registered yet and the engine's own handlers are switched off, so the
\* signal's default action ends the process at once
lib_signal_default ==
  /\ impl = "lib" /\ mode \in {"build", "develop"}
  /\ obs.exit = "none" /\ ~obs.session
  /\ \E p \in Slots :
       slots[p].act \in {"oneshot", "develop"} /\ slots[p].pc # "settled"
  /\ slots' = [q \in Slots |->
       [slots[q] EXCEPT !.pc = IF @ \in {"idle", "done", "settled"} THEN @
                               ELSE "exited"]]
  /\ obs' = [obs EXCEPT !.exit = "signal", !.by = "default"]
  /\ UNCHANGED <<call, impl, mode, req, fsys, b, proc, sub, env>>

\* ------------------------------------------------------------ the user's editor
\* the watched data file is rewritten
Edit ==
  /\ mode = "develop" /\ sub = "active" /\ obs.exit = "none"
  /\ env.edits < MaxEdits
  /\ env' = [env EXCEPT !.edits = @ + 1]
  /\ \E d \in DataStates \ {"missing"} :
       fsys' = [fsys EXCEPT !.data = d, !.ver = @ + 1]
  /\ UNCHANGED <<call, impl, mode, req, b, proc, sub, slots, obs>>

\* ------------------------------------------------------------ specifications
BuilderStep(p) ==
  \/ index_build_root(p)
  \/ index_build_getData(p)
  \/ index_build_renderHTML(p)
  \/ index_build_mkdir(p)
  \/ index_render_goto(p)
  \/ index_render_pdf(p)
  \/ index_build_writeFile(p)
  \/ lib_build_template(p)
  \/ lib_build_data(p)
  \/ lib_build_mkdir(p)
  \/ lib_build_parseAndRender(p)
  \/ lib_build_setContent(p)
  \/ lib_build_pdf(p)
  \/ index_close_browser(p)
  \/ index_close_flag(p)
  \/ lib_close_page(p)
  \/ lib_close_browser(p)

NextBuilder ==
  \E p \in Slots : UserBuild(p) \/ UserClose(p) \/ BuilderStep(p)

SpecBuilder == InitBuilder /\ [][NextBuilder]_vars

\* ------------------------------------------------------------ pure functions
PathSegs == {"a", "..", "."}
PathStrings ==
  { Str(abs, segs) : abs \in BOOLEAN,
                     segs \in UNION { [1..n -> PathSegs] : n \in 0..MaxSegs } }
PathValues ==
  PathStrings \cup { NonString(t) : t \in {"undefined", "object", "number"} }

\* absolutizePath(path, rootDir) is about to be called with any two values
InitPath ==
  /\ impl = "index"
  /\ mode = "call"
  /\ req \in Requests /\ req.rootIsString /\ req.dataExt = ".yml" /\ req.tplExt = ".liquid"
  /\ req.output = Str(FALSE, <<"d", "o">>)
  /\ fsys \in FsStates /\ fsys.root /\ fsys.tpl /\ fsys.data = "object" /\ ~fsys.outDir
  /\ b = BuilderNone
  /\ proc = ProcNone
  /\ sub = "none"
  /\ slots = [p \in Slots |-> IdleSlot]
  /\ env = EnvInit
  /\ obs = ObsInit
  /\ call \in [fn : {"absolutizePath"}, path : PathValues, rootDir : PathValues,
                state : {"called"}, result : {PathFail(NoError)}]

\* the call returns or throws
absolutizePath_return ==
  /\ call.fn = "absolutizePath" /\ call.state = "called"
  /\ call' = [call EXCEPT !.state = "returned",
                          !.result = absolutizePath(call.path, call.rootDir)]
  /\ UNCHANGED <<impl, mode, req, fsys, b, proc, sub, slots, env, obs>>

NextPath == absolutizePath_return

SpecPath == InitPath /\ [][NextPath]_vars

\* --------------------------------------------------------- config functions
\* distinct objects with the same keys
MaxObjects == 2

validKeys == {"launchOptions", "liquidOptions", "pdfOptions"}

\* a JavaScript value as defineConfig sees it: the tag Object.prototype.toString
\* gives, the identity of the object, its own enumerable keys
Value(tag, id, keys) == [tag |-> tag, id |-> id, keys |-> keys]
NoValue == Value("none", 0, {})

NonObjectTags ==
  { "[object String]", "[object Number]", "[object Boolean]", "[object Null]",
    "[object Undefined]", "[object RegExp]", "[object Array]" }
ConfigKeys == validKeys \cup {"invalid", "templateRenderer"}
ConfigValues ==
  { Value(t, 0, {}) : t \in NonObjectTags }
    \cup { Value("[object Object]", i, ks) : i \in 1..MaxObjects,
                                              ks \in SUBSET ConfigKeys }

Thrown(name, message) ==
  [ok |-> FALSE, name |-> name, message |-> message, v |-> NoValue]
Returned(v) == [ok |-> TRUE, name |-> "none", message |-> "none", v |-> v]

Mut_defineConfig(config) ==
  IF config.tag # "[object Object]"
  THEN Thrown("TypeError", "invalid config provided")
  ELSE IF Cardinality(validKeys \cup config.keys) > Cardinality(validKeys)
  THEN Thrown("TypeError", "invalid config key provided")
  ELSE Returned(Value(config.tag, 0, config.keys))

defineConfig(config) ==
  IF config.tag # "[object Object]"
  THEN Thrown("TypeError", "invalid config provided")
  ELSE IF Cardinality(validKeys \cup config.keys) > Cardinality(validKeys)
  THEN Thrown("TypeError", "invalid config key provided")
  ELSE Returned(config)

\* what import() of a default config file gives: no such module, a module that
\* fails to load (a syntax error, a throw at the top level), a module whose
\* default export is a plain object, a module whose default export is not
FileStates == {"missing", "broken", "object", "nonobject"}
DefaultNames == <<"pme.config.js", "pme.config.mjs", "pme.config.cjs">>
DefaultExport(i) == Value("[object Object]", i, {"pdfOptions"})

tryToImportConfig(i, files) ==
  CASE files[i] = "missing" -> Thrown("Error", "ERR_MODULE_NOT_FOUND")
    [] files[i] = "broken" -> Thrown("SyntaxError", "Unexpected token")
    [] files[i] = "nonobject" ->
         Thrown("TypeError", "config's default export must be an object")
    [] files[i] = "object" -> Returned(DefaultExport(i))

RECURSIVE loadConfig_loop(_, _)
loadConfig_loop(i, files) ==
  IF i > Len(DefaultNames) THEN Returned(Value("[object Object]", 0, {}))
  ELSE LET moduleOrError == tryToImportConfig(i, files) IN
       IF ~moduleOrError.ok /\ moduleOrError.name = "TypeError"
       THEN moduleOrError
       ELSE IF ~moduleOrError.ok THEN loadConfig_loop(i + 1, files)
       ELSE moduleOrError

loadConfig(files) == loadConfig_loop(1, files)

\* the signal options of puppeteer.launch: each is true, false or left out
SignalOptions == {"handleSIGHUP", "handleSIGINT", "handleSIGTERM"}
LaunchOptions == [SignalOptions -> {"unset", "true", "false"}]

\* a launch whose fixed options come first, so that the user's override them
Mut_lib_launchArgs(launchOptions) ==
  [h \in SignalOptions |->
     IF launchOptions[h] # "unset" THEN launchOptions[h] ELSE "false"]

\* src/lib.js 285-290: the user's options are spread first, the three signal
\* options are set after them
lib_launchArgs(launchOptions) == [h \in SignalOptions |-> "false"]

\* src/index.js 236: puppeteer.launch() is called without options
index_launchArgs == [h \in SignalOptions |-> "unset"]

\* does the engine install its own handler of the signal: the option defaults
\* to true
EngineHandles(args, h) == args[h] # "false"

\* without a path in a working directory holding any default config files
InitConfig ==
  /\ impl = "lib"
  /\ mode = "call"
  /\ req \in Requests /\ req.rootIsString /\ req.dataExt = ".yml" /\ req.tplExt = ".liquid"
  /\ req.output = Str(FALSE, <<"d", "o">>)
  /\ fsys \in FsStates /\ fsys.root /\ fsys.tpl /\ fsys.data = "object" /\ ~fsys.outDir
  /\ b = BuilderNone
  /\ proc = ProcNone
  /\ sub = "none"
  /\ slots = [p \in Slots |-> IdleSlot]
  /\ env = EnvInit
  /\ obs = ObsInit
  /\ \/ call \in [fn : {"defineConfig"}, config : ConfigValues,
                  state : {"called"}, result : {Thrown("none", "none")}]
     \/ call \in [fn : {"loadConfig"}, files : [1..3 -> FileStates],
                  state : {"called"}, result : {Thrown("none", "none")}]
     \/ call \in [fn : {"launch"}, by : Impls, launchOptions : LaunchOptions,
                  state : {"called"}, result : {index_launchArgs}]

defineConfig_return ==
  /\ call.fn = "defineConfig" /\ call.state = "called"
  /\ call' = [call EXCEPT !.state = "returned",
                          !.result = defineConfig(call.config)]
  /\ UNCHANGED <<impl, mode, req, fsys, b, proc, sub, slots, env, obs>>

loadConfig_return ==
  /\ call.fn = "loadConfig" /\ call.state = "called"
  /\ call' = [call EXCEPT !.state = "returned",
                          !.result = loadConfig(call.files)]
  /\ UNCHANGED <<impl, mode, req, fsys, b, proc, sub, slots, env, obs>>

\* getPDFRenderer() / getPDFBuilder(args) calls puppeteer.launch
launch_return ==
  /\ call.fn = "launch" /\ call.state = "called"
  /\ call' = [call EXCEPT !.state = "returned",
                          !.result = IF call.by = "index" THEN index_launchArgs
                                     ELSE lib_launchArgs(call.launchOptions)]
  /\ UNCHANGED <<impl, mode, req, fsys, b, proc, sub, slots, env, obs>>

NextConfig == defineConfig_return \/ loadConfig_return \/ launch_return

SpecConfig == InitConfig /\ [][NextConfig]_vars

\* one run of the program: build() or develop(), from the call on
Init == InitBuild \/ InitDevelop

Next ==
  \/ \E p \in Slots :
       \/ develop_pathExists(p)
       \/ getBuilder_launch(p)
       \/ getBuilder_newPage(p)
       \/ caller_build(p)
       \/ BuilderStep(p)
       \/ build_finally(p)
       \/ develop_subscribe(p)
       \/ develop_catch(p)
       \/ index_callback(p)
       \/ index_callback_error(p)
       \/ index_callback_settle(p)
       \/ lib_change(p)
       \/ lib_change_catch(p)
       \/ cleanup(p)
       \/ cleanup_close(p)
       \/ handle_catch(p)
       \/ executeCommand_catch(p)
       \/ lib_signal(p)
       \/ lib_signal_exit(p)
  \/ lib_error
  \/ lib_signal_default
  \/ Edit
  \/ process_ends

Spec == Init /\ [][Next]_vars

\* ------------------------------------------------------------ claims
\* C1 (as stated): a build() call issued after close() has completed returns
\* without throwing and without any effect, whatever arguments it is given.
C1_AnyArguments ==
  \A p \in Slots :
    slots[p].act = "build" /\ slots[p].afterClose
      => /\ slots[p].pc = "done"
         /\ slots[p].err = NoError
         /\ slots[p].fx = {}

\* C1 (amended): a build() call that is given a request object and is issued
\* after close() has completed returns at once, without an error, having read no
\* file, created no directory, written no file and invoked no renderer, whatever
\* the request and the root directory are.
C1_BuildAfterCloseIsNoOp ==
  \A p \in Slots :
    slots[p].act = "build" /\ slots[p].afterClose /\ slots[p].args # "noRequest"
      => /\ slots[p].pc = "done"
         /\ slots[p].err = NoError
         /\ slots[p].fx = {}
         /\ slots[p].bytes = "none"

C1_Witness ==
  \E p \in Slots :
    /\ slots[p].act = "build" /\ slots[p].afterClose
    /\ slots[p].args = "rootNotString" /\ slots[p].pc = "done"
    /\ ~fsys.tpl

\* C2: every step of a close() call issued after an earlier close() has
\* completed leaves the Builder's variables and the browser process as they
\* were (nothing is released again) and the call ends without an error.
C2_CloseIdempotent ==
  [][\A p \in Slots :
       slots'[p].act = "close" /\ slots'[p].afterClose /\ slots'[p] # slots[p]
         => b' = b /\ proc' = proc /\ slots'[p].err = NoError]_vars

C2_Witness ==
  \E p \in Slots :
    /\ slots[p].act = "close" /\ slots[p].afterClose /\ slots[p].pc = "done"
    /\ fsys.out \in {"none", "old"}

\* C3: when the one-shot build settles, close() of the Builder it
\* constructed has been called and awaited, and after a failed Builder.build()
\* the caller receives the build error.
C3_OriginalErrorReceived ==
  \A p \in Slots :
    slots[p].act = "oneshot" /\ slots[p].pc = "settled" /\ b.made
      => /\ slots[p].cres # "none"
         /\ slots[p].berr # NoError => slots[p].err = slots[p].berr

\* C4: develop() called with a missing data or template path starts no browser
\* and creates no subscription, and fails with the "does not exist" error.
C4_FailFast ==
  mode = "develop" /\ (fsys.data = "missing" \/ ~fsys.tpl)
    => /\ proc.nLaunch = 0
       /\ sub = "none"
       /\ \A p \in Slots :
            slots[p].act = "develop" /\ slots[p].pc = "settled"
              => slots[p].err = "does not exist"

\* C5: when develop() rejects, no subscription is active, no browser process
\* is left running, and the error is the one that caused the failure.
C5_SetupUnwinds ==
  \A p \in Slots :
    slots[p].act = "develop" /\ slots[p].pc = "settled" /\ slots[p].err # NoError
      => /\ sub # "active"
         /\ proc.browser \in {"none", "closed"}
         /\ slots[p].berr # NoError => slots[p].err = slots[p].berr

\* C6: a delivered batch that holds an "update" event of a watched path
\* triggers exactly one rebuild, whatever else it holds and in whatever order.
C6_UpdateTriggersRebuild ==
  \A p \in Slots :
    slots[p].act = "callback" /\ slots[p].hasUpdate => slots[p].nbuild = 1

\* C7: a delivered batch without an "update" event of a watched path makes the
\* callback return at once: no rebuild is triggered and the Builder, the
\* browser, the subscription and the filesystem are left as they were.
C7_NoUpdateNoRebuild ==
  [][\A p \in Slots :
       /\ slots'[p].act = "callback" /\ slots'[p] # slots[p]
       /\ ~slots'[p].hasUpdate /\ slots'[p].err = NoError
       => /\ slots'[p].pc = "done"
          /\ slots'[p].nbuild = 0
          /\ slots'[p].fx = {}
          /\ b' = b /\ proc' = proc /\ sub' = sub /\ fsys' = fsys]_vars

C7_Witness ==
  \E p \in Slots :
    /\ slots[p].act = "callback" /\ slots[p].pc = "done"
    /\ slots[p].hasMatch /\ ~slots[p].hasUpdate
    /\ slots[p].nbuild = 0 /\ slots[p].err = NoError

\* C8: when a rebuild inside the watch callback fails with an error of the
\* disregard set, the callback returns normally: nothing is thrown or reported,
\* the subscription, the Builder, the browser and the output file are left as
\* they were, the failed rebuild wrote no file, and as long as cleanup has not
\* been invoked the session stays able to rebuild on a later event.
C8_DisregardedErrorSwallowed ==
  /\ [][\A p \in Slots :
          /\ slots[p].act = "callback" /\ slots[p].pc = "w_settle"
          /\ slots'[p].pc # "w_settle"
          /\ slots[p].err \in errorsToDisregard
          => /\ slots'[p].pc = "done"
             /\ slots'[p].err = NoError
             /\ "write" \notin slots[p].fx
             /\ sub' = sub /\ b' = b /\ proc' = proc /\ fsys' = fsys
             /\ obs'.thrown = obs.thrown /\ obs'.exit = obs.exit]_vars
  /\ [](obs.swallowed /\ env.cleanups = 0
          => sub = "active" /\ ~IsShut /\ proc.browser = "live")

C8_Witness ==
  /\ obs.swallowed
  /\ slots["s1"].act = "callback" /\ slots["s1"].nbuild = 1
  /\ slots["s1"].pc = "b_root"
  /\ slots["s2"].act = "idle"

\* C9: when a rebuild inside the watch callback fails with an error outside
\* the disregard set, the subscription is unsubscribed, the Builder is closed,
\* the error is reported, and nothing is thrown out of the callback.
C9_TearDown ==
  \A p \in Slots :
    /\ slots[p].act = "callback" /\ slots[p].pc \in {"done", "exited"}
    /\ slots[p].berr # NoError /\ slots[p].berr \notin errorsToDisregard
    => /\ sub = "unsubscribed"
       /\ IsShut
       /\ obs.reported = slots[p].berr
       /\ obs.thrown = NoError

\* C10: a one-shot build, or the eager first build of develop(), that fails
\* with an error of the disregard set is not swallowed: the call rejects (with
\* that error whenever close() resolves), the Builder has been closed, and
\* develop() has created no subscription and no session.
C10_DisregardOnlyInCallback ==
  \A p \in Slots :
    /\ slots[p].act \in {"oneshot", "develop"}
    /\ slots[p].berr \in errorsToDisregard
    => /\ slots[p].pc \in {"os_finally", "d_catch", "c_browser", "c_flag", "settled"}
       /\ slots[p].err # NoError
       /\ sub = "none" /\ ~obs.session /\ ~obs.swallowed
       /\ slots[p].pc = "settled"
            => /\ slots[p].cres # "none"
               /\ slots[p].cres = "ok" => slots[p].err = slots[p].berr

C10_Witness ==
  \E p \in Slots :
    /\ slots[p].act = "develop" /\ slots[p].pc = "settled"
    /\ slots[p].berr = "JSON5: invalid end of input at 1:1"
    /\ slots[p].err = slots[p].berr
    /\ proc.browser = "closed"

\* C11: once the cleanup function has called builder.close() the subscription
\* is already unsubscribed, and once it has resolved the subscription is
\* unsubscribed, the Builder is closed, and a build() entered on that Builder
\* returns at once without error and without effect.
C11_CleanupReleases ==
  \A p \in Slots :
    slots[p].act = "cleanup" /\ slots[p].err = NoError
      => /\ slots[p].pc \in {"c_browser", "c_flag", "lc_page", "lc_nopage",
                              "lc_browser", "lc_nobrowser", "done"}
              => sub = "unsubscribed"
         /\ slots[p].pc = "done"
              => /\ IsShut
                 /\ LET probe == [IdleSlot EXCEPT !.act = "build"]
                        r == IF impl = "index" THEN index_build_enter(probe)
                             ELSE lib_build_enter(probe)
                    IN r.pc = "done" /\ r.err = NoError /\ r.fx = {}

C11_Witness ==
  \E p \in Slots :
    /\ slots[p].act = "cleanup" /\ slots[p].pc = "done" /\ slots[p].err = NoError
    /\ ~slots[p].afterClose
    /\ proc.browser = "closed" /\ sub = "unsubscribed"

\* C12: the cleanup function invoked when the Builder is already closed
\* resolves: it never rejects, and it invokes no page or browser close.
C12_CleanupAfterClose ==
  /\ [](\A p \in Slots :
         slots[p].act = "cleanup" /\ slots[p].afterClose => slots[p].err = NoError)
  /\ [][\A p \in Slots :
          slots'[p].act = "cleanup" /\ slots'[p].afterClose /\ slots'[p] # slots[p]
            => proc' = proc /\ IsShut']_vars

C12_Witness ==
  \E p \in Slots :
    /\ slots[p].act = "cleanup" /\ slots[p].pc = "done" /\ slots[p].afterClose
    /\ slots[p].err = NoError /\ env.cleanups = 2

\* C13: a Builder.build() call that fails has not written the output file.
C13_FailedBuildWritesNothing ==
  \A p \in Slots :
    slots[p].act \in {"build", "oneshot", "develop", "callback"}
      /\ slots[p].berr # NoError
      => "write" \notin slots[p].fx

\* C20: absolutizePath(path, rootDir) returns normalize(join(rootDir, path))
\* for a relative path and normalize(path), whatever the root, for an absolute
\* one; an omitted rootDir stands for the working directory; it throws the
\* TypeError whenever path, or the rootDir it is given, is not a string; and it
\* changes nothing but its result.
C20_AbsolutizationLaw ==
  /\ [](call.fn = "absolutizePath" /\ call.state = "returned"
         => LET p == call.path
                r == IF call.rootDir.t = "undefined" THEN cwd ELSE call.rootDir
            IN IF p.t # "string" \/ r.t # "string"
                 THEN ~call.result.ok /\ call.result.e # NoError
               ELSE /\ call.result.ok
                    /\ call.result.v.t = "string"
                    /\ p.abs => call.result.v = normalize(p)
                    /\ ~p.abs => call.result.v = normalize(join(r, p)))
  /\ [][call' # call
          => UNCHANGED <<impl, mode, req, fsys, b, proc, sub, slots, env, obs>>]_vars

C20_Witness ==
  /\ call.fn = "absolutizePath" /\ call.state = "returned"
  /\ call.path = Str(TRUE, <<"a", "..">>)
  /\ call.rootDir = Str(FALSE, <<"..", "a">>)
  /\ call.result.ok /\ call.result.v = Str(TRUE, <<>>)

\* C14: a Builder.build() call on a Builder that is open, given a request, an
\* existing root, an existing template and a data file holding an object, both
\* with accepted extensions, fails only if a renderer or the directory creation
\* fails; and when it resolves it has written the document rendered from the
\* data it read to the output path resolved against the root directory (an
\* absolute output path only normalized), and the parent directory of that
\* path exists.
C14_SuccessfulBuildWrites ==
  [][\A p \in Slots :
       /\ slots'[p].act = "build" /\ slots'[p] # slots[p]
       /\ slots'[p].pc = "done" /\ slots'[p].args = "ok"
       /\ fsys.root /\ fsys.tpl /\ fsys.data = "object"
       /\ req.dataExt = ".yml" /\ req.tplExt = ".liquid"
       /\ b' = BuilderOpen
       => LET s == slots'[p]
              root == IF impl = "index" THEN rootDir ELSE cwd
          IN /\ s.berr \in {NoError, "TemplateRenderError", "DocumentRenderError",
                             "MkdirError"}
             /\ s.berr = NoError =>
                  /\ "write" \in s.fx
                  /\ s.bytes = VerOf(fsys.ver)
                  /\ fsys'.out = s.bytes
                  /\ fsys'.outDir
                  /\ s.outputFile = IF req.output.abs THEN normalize(req.output)
                                    ELSE normalize(join(root, req.output))]_vars

C14_Witness ==
  \E p \in Slots :
    /\ slots[p].act = "build" /\ slots[p].pc = "done" /\ slots[p].berr = NoError
    /\ {"mkdir", "write"} \subseteq slots[p].fx
    /\ req.output = Str(FALSE, <<"..", "o">>)
    /\ impl = "lib" /\ slots[p].outputFile = Str(TRUE, <<"o">>)
    /\ fsys.out = "v0" /\ b = BuilderOpen

\* C15: in a running watch session whose data file was edited, once a rebuild
\* has been started after the last edit and every rebuild has finished without
\* an error being thrown or reported, the output file holds the rendering of
\* the data file as it is on disk.
C15_OutputCatchesUp ==
  /\ mode = "develop" /\ sub = "active"
  /\ obs.exit = "none" /\ obs.thrown = NoError
  /\ env.edits >= 1 /\ env.seen = fsys.ver
  /\ fsys.data = "object"
  /\ \A p \in Slots : Free(p)
  => fsys.out = VerOf(fsys.ver)

\* C16: when Builder.build() has failed in the one-shot build command of the
\* CLI, the process ends with a message printed and with a non-zero exit status.
C16_FailedBuildExitsNonZero ==
  mode = "build" /\ obs.exit # "none"
    /\ (\E p \in Slots : slots[p].act = "oneshot" /\ slots[p].berr # NoError)
    => obs.exit # "0" /\ obs.reported # NoError

\* C17: when the process has exited from a signal handler, its status is 0 and
\* the cleanup call of that handler had settled: its unsubscribe rejected, or
\* its builder.close() resolved or rejected.
C17_SignalExitAfterCleanup ==
  obs.by = "signal"
    => /\ obs.exit = "0"
       /\ \E p \in Slots :
            /\ slots[p].act = "signal" /\ slots[p].pc = "h_done"
            /\ slots[p].cres # "none" \/ slots[p].err = "UnsubscribeError"

C17_Witness ==
  /\ obs.by = "signal" /\ obs.exit = "0"
  /\ \E p \in Slots :
       /\ slots[p].act = "signal" /\ slots[p].pc = "h_done"
       /\ slots[p].err = "CloseError" /\ proc.browser = "live"

\* C18: a build whose deserialized data is a scalar, an array or null fails
\* with the invalid-data-shape error and never invokes the template renderer.
C18_InvalidShapeRejected ==
  \A p \in Slots :
    /\ slots[p].act = "build" /\ slots[p].pc = "done"
    /\ slots[p].data \in {"scalar", "array", "null"}
    /\ fsys.tpl
    => /\ slots[p].berr \in
            { "'data' must be an object or undefined, given 'string'",
              "'data' must be an object or undefined, given 'null'",
              "data must be an object or undefined" }
       /\ "tpl" \notin slots[p].fx

\* C19: a build that reaches the data file fails with the not-found error when
\* no file exists at the data path, fails with the unsupported-format error
\* when the file exists and its extension is not accepted, and obtains a value
\* only from an existing file with an accepted extension, parsed by the parser
\* the extension selects.
C19_DataLoaderErrors ==
  \A p \in Slots :
    /\ slots[p].act = "build" /\ slots[p].pc = "done" /\ slots[p].args = "ok"
    /\ fsys.root /\ fsys.tpl /\ req.tplExt = ".liquid"
    /\ ~(slots[p].berr = NoError /\ slots[p].fx = {})
    => /\ fsys.data = "missing"
            => slots[p].berr \in { "Data file does not exist",
                                   "could not read and parse data file" }
       /\ fsys.data # "missing"
            /\ req.dataExt \notin {".yml", ".yaml", ".json", ".jsonc", ".json5"}
            => slots[p].berr \in
                 { "Only YAML, JSON, JSONC, and JSON5 formats are accepted",
                   "data file must be a YAML file" }
       /\ slots[p].data # "none"
            => /\ fsys.data # "missing"
               /\ req.dataExt \in {".yml", ".yaml"}
                    => slots[p].data = YAMLparse(fsys.data).v
               /\ req.dataExt \in {".json", ".jsonc", ".json5"}
                    => slots[p].data = JSON5parse(fsys.data).v
               /\ req.dataExt \in {".yml", ".yaml", ".json", ".jsonc", ".json5"}

\* C21: defineConfig throws TypeError "invalid config provided" for every
\* argument that is not a plain object, throws TypeError "invalid config keys
\* provided" for every plain object with a key outside launchOptions,
\* liquidOptions and pdfOptions, and throws for no other argument.
C21_DefineConfigThrows ==
  call.fn = "defineConfig" /\ call.state = "returned"
    => /\ call.config.tag # "[object Object]"
            => call.result = Thrown("TypeError", "invalid config provided")
       /\ call.config.tag = "[object Object]"
            /\ ~(call.config.keys \subseteq validKeys)
            => call.result = Thrown("TypeError", "invalid config keys provided")
       /\ call.config.tag = "[object Object]"
            /\ call.config.keys \subseteq validKeys
            => call.result.ok

\* C22: for every plain object whose keys are all among launchOptions,
\* liquidOptions and pdfOptions, the empty object included, defineConfig returns
\* the very object it was given, with the keys it had.
C22_ReturnsSameObject ==
  /\ call.fn = "defineConfig" /\ call.state = "returned"
  /\ call.config.tag = "[object Object]"
  /\ call.config.keys \subseteq validKeys
  => call.result = Returned(call.config)

C22_Witness ==
  /\ call.fn = "defineConfig" /\ call.state = "returned"
  /\ call.config = Value("[object Object]", 2, {"pdfOptions"})
  /\ call.result.ok /\ call.result.v.id = 2

\* C23: loadConfig without a path returns the default export of the first of
\* pme.config.js, pme.config.mjs, pme.config.cjs that exists, fails when the
\* default export of that file is not a plain object, and returns an empty
\* object only when none of the three exists.
C23_FirstExistingConfig ==
  call.fn = "loadConfig" /\ call.state = "returned"
    => LET existing == { i \in 1..3 : call.files[i] # "missing" }
           empty == Returned(Value("[object Object]", 0, {}))
       IN  IF existing = {} THEN call.result = empty
           ELSE LET first == CHOOSE i \in existing :
                               \A j \in existing : i <= j
                IN  /\ call.result # empty
                    /\ call.files[first] = "object"
                         => call.result = Returned(DefaultExport(first))
                    /\ call.files[first] = "nonobject"
                         => ~call.result.ok /\ call.result.name = "TypeError"

\* C24: the lifecycle flag of a Builder of src/index.js has two values, is unset
\* when the Builder is handed out, and changes only from unset to set, in a
\* step in which a close() call resolves; it is never unset again.
C24_PhaseMonotone ==
  /\ (impl = "index" /\ b.made => ~b.isClosed)
  /\ [][ impl = "index" /\ b.made
           => /\ b'.made
              /\ b.isClosed \in BOOLEAN /\ b'.isClosed \in BOOLEAN
              /\ b.isClosed => b'.isClosed
              /\ b.isClosed # b'.isClosed
                   => \E p \in Slots :
                        /\ slots[p].pc = "c_flag"
                        /\ slots'[p].pc # "c_flag"
                        /\ slots'[p].cres = "ok" ]_vars

C24_Witness ==
  /\ impl = "index" /\ b.isClosed
  /\ \E p, q \in Slots :
       /\ p # q
       /\ slots[p].act = "close" /\ slots[p].pc = "done" /\ slots[p].cres = "ok"
       /\ slots[q].act = "close" /\ slots[q].pc = "c_flag"

\* C25: once a close() call of the Builder has resolved, the Builder holds no
\* reference to a template renderer, to the browser or to the page.
C25_ClosedHoldsNothing ==
  b.made /\ obs.closeDone => ~b.liquid /\ ~b.page /\ ~b.browser

\* C26: a build that gets as far as its files while the template file is
\* missing fails with the template-not-found error, whatever the state of the
\* data file, and has not read the data file.
C26_TemplateBeforeData ==
  \A p \in Slots :
    /\ slots[p].act = "build" /\ slots[p].pc = "done" /\ slots[p].args = "ok"
    /\ fsys.root /\ ~fsys.tpl /\ req.tplExt = ".liquid"
    /\ ~(slots[p].berr = NoError /\ slots[p].fx = {})
    => /\ slots[p].berr \in { "Template file does not exist",
                              "could not read template file" }
       /\ "read" \notin slots[p].fx

\* C27: in develop() the subscription is created only in the step that follows
\* an eager build which resolved and wrote its output; a watcher callback
\* starts only once the subscription exists and develop() has settled; and
\* after a failed eager build there is never a subscription.
C27_SubscribeAfterEagerBuild ==
  /\ [](\A p \in Slots :
          slots[p].act = "develop" /\ slots[p].berr # NoError
            => sub = "none" /\ ~obs.session)
  /\ [][ /\ sub = "none" /\ sub' # "none"
            => \E p \in Slots :
                 /\ slots[p].act = "develop" /\ slots[p].pc = "d_subscribe"
                 /\ slots[p].berr = NoError /\ "write" \in slots[p].fx
         /\ \A p \in Slots :
              slots'[p].act = "callback" /\ slots'[p] # slots[p]
                /\ slots[p].act # "callback"
              => /\ obs.session /\ sub = "active"
                 /\ \A q \in Slots :
                      slots[q].act = "develop" => slots[q].pc = "settled" ]_vars

C27_Witness ==
  /\ mode = "develop" /\ sub = "active" /\ obs.session
  /\ env.batches = 1
  /\ \E p \in Slots :
       /\ slots[p].act = "callback" /\ slots[p].nbuild = 1
       /\ slots[p].pc \notin {"done", "exited"}

\* C28: once the watcher has delivered a subscription error to the session, the
\* subscription is unsubscribed and the Builder is closed, and the handler of
\* that delivery has started no rebuild.
C28_WatcherErrorTearsDown ==
  obs.thrown = "WatcherError" \/ obs.reported = "WatcherError"
    => /\ sub = "unsubscribed"
       /\ IsShut
       /\ \A p \in Slots :
            slots[p].act = "callback" /\ slots[p].err = "WatcherError"
              => slots[p].nbuild = 0 /\ slots[p].fx = {}

\* C29: in a watch session at most one build() call of the session's Builder
\* is in flight at any time.
C29_OneBuildInFlight ==
  mode = "develop" => Cardinality({ p \in Slots : InBuild(slots[p]) }) <= 1

\* C30: the document a build() call has obtained from the page, and writes to
\* the output file, is the rendering of the files as this same call read them.
C30_BytesAreOwnRendering ==
  \A p \in Slots :
    slots[p].bytes \notin {"none", "empty"} => slots[p].bytes = slots[p].ver

\* C31: whenever close() begins to close the browser, the page's own close has
\* completed; and a close() call issued after a close() has resolved invokes
\* neither the page's close nor the browser's close.
C31_PageThenBrowser ==
  [][ /\ proc'.nBrowserClose > proc.nBrowserClose => proc'.page = "closed"
      /\ \A p \in Slots :
           slots'[p].act = "close" /\ slots'[p].afterClose /\ slots'[p] # slots[p]
             => /\ proc'.nBrowserClose = proc.nBrowserClose
                /\ proc'.nPageClose = proc.nPageClose ]_vars

\* C32: a build() call starts a page navigation (page.goto, page.setContent) or
\* a PDF export (page.pdf) only on a browser whose close has not begun.
C32_NoRenderOnceClosing ==
  [][ \A p \in Slots :
        /\ slots'[p].pc \in {"b_goto", "b_pdf", "l_setContent", "l_pdf"}
        /\ slots'[p].pc # slots[p].pc
        => proc'.browser = "live" /\ proc'.page = "open" ]_vars

C34_FailedBuildKeepsBuilder ==
  /\ []((HasFailedBuild /\ proc.nBrowserClose = 0 /\ proc.nPageClose = 0)
          => b = BuilderOpen /\ proc.browser = "live" /\ proc.page = "open")
  /\ [](\A p \in Slots :
          /\ slots[p].act = "build" /\ slots[p].afterFail /\ slots[p].pc = "done"
          /\ slots[p].berr = NoError
          /\ proc.nBrowserClose = 0 /\ proc.nPageClose = 0
          => /\ {"read", "tpl", "pdf", "write"} \subseteq slots[p].fx
             /\ slots[p].bytes = VerOf(fsys.ver))
  /\ [][ \A p \in Slots :
           /\ slots'[p].act = "build" /\ slots'[p] # slots[p]
           /\ slots'[p].pc = "done" /\ slots'[p].berr # NoError
           => /\ b' = b
              /\ proc'.browser = proc.browser /\ proc'.page = proc.page
              /\ proc'.nBrowserClose = proc.nBrowserClose
              /\ proc'.nPageClose = proc.nPageClose ]_vars

C34_Witness ==
  \E p \in Slots :
    /\ slots[p].act = "build" /\ slots[p].afterFail /\ slots[p].pc = "done"
    /\ slots[p].berr = NoError /\ "write" \in slots[p].fx
    /\ fsys.out = slots[p].bytes
    /\ b = BuilderOpen /\ proc.browser = "live" /\ proc.page = "open"
    /\ \A q \in Slots \ {p} : slots[q].act = "idle"

\* C35: whatever close() calls are made on the Builder, and however they
\* overlap, the close of its page and the close of its browser are each invoked
\* at most once.
C35_EachCloseInvokedOnce ==
  proc.nBrowserClose <= 1 /\ proc.nPageClose <= 1

\* C36: the output file never holds the empty buffer that the PDF renderer of
\* src/index.js returns once it is closed, and no build() call has written it.
C36_NoEmptyArtifact ==
  /\ fsys.out # "empty"
  /\ \A p \in Slots : "write" \in slots[p].fx => slots[p].bytes # "empty"

\* C37: once the cleanup function of a watch session has resolved (the
\* subscription is released and close() has resolved), no call enters
\* Builder.build() and no write of the output file is started (fs.writeFile,
\* page.pdf with the output path).
C37_NoWorkAfterCleanup ==
  [][ mode = "develop" /\ obs.session /\ obs.closeDone /\ sub = "unsubscribed"
        => \A p \in Slots :
             /\ InBuild(slots'[p]) => InBuild(slots[p])
             /\ slots'[p].pc \in {"b_write", "l_pdf"}
                  => slots[p].pc = slots'[p].pc ]_vars

\* C38: when a CLI run of src/lib.js has been ended by a termination signal
\* after it launched a browser, that browser has been closed.
C38_SignalClosesBrowser ==
  impl = "lib" /\ obs.by \in {"signal", "default"} /\ proc.nLaunch >= 1
    => proc.browser = "closed"

\* C39: a build() call that has failed has neither created the parent
\* directory of the output file nor written the output file.
C39_FailedBuildLeavesFilesystem ==
  \A p \in Slots :
    slots[p].act = "build" /\ slots[p].pc = "done" /\ slots[p].berr # NoError
      => "mkdir" \notin slots[p].fx /\ "write" \notin slots[p].fx

====
